---- MODULE Spec2Model ----
(***************************************************************************)
(* A model of paymentxp_client/client.py: the PaymentXpClient, its seven   *)
(* public operations, _make_request and _parse_response.                   *)
(*                                                                         *)
(* Python values are modelled as follows.                                  *)
(*   - A str that the code builds, formats or parses (the response text,   *)
(*     the keys and values of the parsed mapping, a formatted date, the    *)
(*     str() of a uuid) is the sequence of its code points.                *)
(*   - A str that only passes through (card fields, credentials, recur id, *)
(*     the literal TransactionType values, the paths) is a TLA+ string.    *)
(*   - bytes are sequences of 0..255.                                      *)
(*   - Optional[X] is a sequence of length at most one: <<>> is None.      *)
(*   - A dict is a function from its keys to its values.                   *)
(*   - A call ends in [kind |-> "return", value |-> v] or in               *)
(*     [kind |-> "raise", exc |-> <exception class>, message |-> m].       *)
(* A thread calling an operation blocks in requests.post: the call step    *)
(* builds the request and posts it, the return step takes what the         *)
(* transport yields and runs the rest of the operation.                    *)
(***************************************************************************)
EXTENDS Integers, Sequences, FiniteSets, TLC

VARIABLES
    merchant_id,        \* self.merchant_id
    merchant_key,       \* self.merchant_key
    pc,                 \* per thread: "idle", "sent" (blocked in requests.post), "done"
    op,                 \* per thread: the operation being called
    args,               \* per thread: the arguments of the call
    reference_number,   \* per thread: authorize_payment's local reference_number
    posts,              \* per thread: the HTTP POSTs this call has issued, in order
    response,           \* per thread: what requests.post yielded to this call
    outcome             \* per thread: how the call ended

vars == <<merchant_id, merchant_key, pc, op, args, reference_number, posts,
          response, outcome>>

---------------------------------------------------------------------------
(* Bounds of the model. *)

\* Threads that call the one client concurrently (specification SpecConc).
NumThreads == 2
\* Longest response body of the exhaustive parse specification (SpecParse).
MaxLen == 5
\* uuid4() draws one of MaxUuid + 1 values.
MaxUuid == 1

Threads == 1..NumThreads
\* The thread of the single-threaded specifications: the first one.
MainThread == CHOOSE t \in Threads : \A u \in Threads : t <= u

---------------------------------------------------------------------------
(* Code points and bytes the code names. *)

AMP == 38        \* '&'
EQ == 61         \* '='
HYPHEN == 45     \* '-'
ZERO == 48       \* '0'

\* 'StatusID', 'TransactionID', 'Token' as code points
StatusID == <<83, 116, 97, 116, 117, 115, 73, 68>>
TransactionID == <<84, 114, 97, 110, 115, 97, 99, 116, 105, 111, 110, 73, 68>>
Token == <<84, 111, 107, 101, 110>>

BASE_URL == "https://webservice.paymentxp.com/wh"
CONTENT_TYPE == "application/x-www-form-urlencoded"

---------------------------------------------------------------------------
(* datetime.date and date.strftime('%m%d%Y'). *)

MINYEAR == 1
MAXYEAR == 9999

IsLeap(y) == (y % 4 = 0) /\ ((y % 100 # 0) \/ (y % 400 = 0))

ThirtyDayMonths == {4, 6, 9, 11}

DaysInMonth(y, m) ==
    IF m = 2 THEN (IF IsLeap(y) THEN 29 ELSE 28)
    ELSE IF m \in ThirtyDayMonths THEN 30 ELSE 31

\* date(year, month, day): the date, or ValueError when a field is out of range.
date(year, month, day) ==
    IF /\ year \in MINYEAR..MAXYEAR
       /\ month \in 1..12
       /\ day \in 1..DaysInMonth(year, month)
    THEN [ok |-> TRUE, value |-> [year |-> year, month |-> month, day |-> day]]
    ELSE [ok |-> FALSE]

RECURSIVE Decimal(_)
\* The decimal digits of n >= 0, as code points, without padding.
Decimal(n) ==
    IF n < 10 THEN <<ZERO + n>> ELSE Decimal(n \div 10) \o <<ZERO + (n % 10)>>

\* %m and %d: two digits, zero padded.
Pad2(n) == <<ZERO + (n \div 10), ZERO + (n % 10)>>

\* d.strftime(DATE_FORMAT) with DATE_FORMAT = '%m%d%Y' (%Y of a year of four
\* digits or more is its decimal digits).
strftime(d) == Pad2(d.month) \o Pad2(d.day) \o Decimal(d.year)

---------------------------------------------------------------------------
(* uuid4() and str() of it. *)

\* The random values uuid4() draws from: the low nibble varies, the version
\* nibble is 4 and the variant nibble is 8, as uuid4 sets them.
Uuids == 0..MaxUuid

uuid4_nibbles(u) ==
    [i \in 1..32 |-> IF i = 13 THEN 4 ELSE IF i = 17 THEN 8
                     ELSE IF i = 32 THEN u ELSE 0]

HexDigit(n) == IF n < 10 THEN ZERO + n ELSE 87 + n

\* str(uuid): 32 lower-case hex digits in groups of 8-4-4-4-12 joined by '-'.
str_uuid(u) ==
    LET h == [i \in 1..32 |-> HexDigit(uuid4_nibbles(u)[i])]
    IN  SubSeq(h, 1, 8) \o <<HYPHEN>> \o SubSeq(h, 9, 12) \o <<HYPHEN>>
        \o SubSeq(h, 13, 16) \o <<HYPHEN>> \o SubSeq(h, 17, 20) \o <<HYPHEN>>
        \o SubSeq(h, 21, 32)

---------------------------------------------------------------------------
(* bytes.decode('utf-8'), str.split and _parse_response. *)

\* The length of the UTF-8 sequence a lead byte starts; 0: not a lead byte.
Utf8Width(x) ==
    IF x < 128 THEN 1
    ELSE IF x \in 194..223 THEN 2
    ELSE IF x \in 224..239 THEN 3
    ELSE IF x \in 240..244 THEN 4
    ELSE 0

\* The second byte's range (no overlong forms, no surrogates, at most 10FFFF).
Utf8Second(lead) ==
    IF lead = 224 THEN 160..191
    ELSE IF lead = 237 THEN 128..159
    ELSE IF lead = 240 THEN 144..191
    ELSE IF lead = 244 THEN 128..143
    ELSE 128..191

Utf8Valid(b, i, n) ==
    /\ i + n - 1 <= Len(b)
    /\ n >= 2 => b[i + 1] \in Utf8Second(b[i])
    /\ \A k \in 2..(n - 1) : b[i + k] \in 128..191

Utf8CodePoint(b, i, n) ==
    IF n = 1 THEN b[i]
    ELSE IF n = 2 THEN (b[i] - 192) * 64 + (b[i + 1] - 128)
    ELSE IF n = 3 THEN (b[i] - 224) * 4096 + (b[i + 1] - 128) * 64 + (b[i + 2] - 128)
    ELSE (b[i] - 240) * 262144 + (b[i + 1] - 128) * 4096
         + (b[i + 2] - 128) * 64 + (b[i + 3] - 128)

RECURSIVE DecodeFrom(_, _)
DecodeFrom(b, i) ==
    IF i > Len(b) THEN [ok |-> TRUE, text |-> <<>>]
    ELSE LET n == Utf8Width(b[i])
         IN  IF n = 0 \/ ~Utf8Valid(b, i, n) THEN [ok |-> FALSE]
             ELSE LET rest == DecodeFrom(b, i + n)
                  IN  IF rest.ok
                      THEN [ok |-> TRUE,
                            text |-> <<Utf8CodePoint(b, i, n)>> \o rest.text]
                      ELSE [ok |-> FALSE]

\* content.decode('utf-8'): the text, or UnicodeDecodeError (ok = FALSE).
decode_utf8(content) == DecodeFrom(content, 1)

RECURSIVE split(_, _)
\* s.split(sep) for a one-character sep: the pieces between the separators,
\* empty pieces kept.
split(s, sep) ==
    IF \A i \in 1..Len(s) : s[i] # sep THEN <<s>>
    ELSE LET i == CHOOSE k \in 1..Len(s) :
                      s[k] = sep /\ \A j \in 1..(k - 1) : s[j] # sep
         IN  <<SubSeq(s, 1, i - 1)>> \o split(SubSeq(s, i + 1, Len(s)), sep)

\* output[key] = value
SetItem(output, key, value) ==
    [k \in (DOMAIN output) \cup {key} |-> IF k = key THEN value ELSE output[k]]

RECURSIVE ParseLoop(_, _, _)
\* ParseLoop with a piece of two or more '=' kept as its first two parts
\* (split('=') read as if it were capped) instead of dropped.
ParseLoop_keeps_malformed(pieces, i, output) ==
    IF i > Len(pieces) THEN output
    ELSE LET split_piece == split(pieces[i], EQ)
         IN  IF Len(split_piece) >= 2
             THEN ParseLoop(pieces, i + 1,
                            SetItem(output, split_piece[1], split_piece[2]))
             ELSE ParseLoop(pieces, i + 1, SetItem(output, split_piece[1], <<>>))

\* The for loop of _parse_response from piece i on.
ParseLoop(pieces, i, output) ==
    IF i > Len(pieces) THEN output
    ELSE LET split_piece == split(pieces[i], EQ)
         IN  IF Len(split_piece) = 2
             THEN ParseLoop(pieces, i + 1,
                            SetItem(output, split_piece[1], split_piece[2]))
             ELSE IF Len(split_piece) = 1
             THEN ParseLoop(pieces, i + 1, SetItem(output, split_piece[1], <<>>))
             ELSE ParseLoop(pieces, i + 1, output)

Return(v) == [kind |-> "return", value |-> v]
Raise(e, m) == [kind |-> "raise", exc |-> e, message |-> m]

_parse_response(content) ==
    LET decoded == decode_utf8(content)
    IN  IF ~decoded.ok THEN Raise("UnicodeDecodeError", <<content>>)
        ELSE Return(ParseLoop(split(decoded.text, AMP), 1, <<>>))

---------------------------------------------------------------------------
(* What the transport (requests.post) yields to a blocked call. *)

\* requests.post raised: no response was obtained.
TransportError == [kind |-> "error"]
\* requests.post returned a Response.
HttpResponse(status_code, content) ==
    [kind |-> "response", status_code |-> status_code, content |-> content]

\* The exception requests.post raised, as it leaves _make_request.
TransportFault == Raise("RequestException", <<>>)

NoResponse == [kind |-> "none"]
NoOutcome == [kind |-> "none"]
NoArgs == [none |-> TRUE]

---------------------------------------------------------------------------
(* _get_url and _make_request. *)

_get_url(path) == BASE_URL \o "/" \o path

headers == "Content-Type" :> CONTENT_TYPE

\* requests.post(request_url, data, headers=headers) as the transport sees it.
PostOf(path, data) ==
    [url |-> _get_url(path), data |-> data, headers |-> headers]

\* The call enters the operation: pc, op and args of thread t.
Begin(t, name, a) ==
    /\ pc[t] = "idle"
    /\ op' = [op EXCEPT ![t] = name]
    /\ args' = [args EXCEPT ![t] = a]

\* _make_request up to and including requests.post: the thread blocks.
_make_request_post(t, path, data) ==
    /\ posts' = [posts EXCEPT ![t] = Append(@, PostOf(path, data))]
    /\ pc' = [pc EXCEPT ![t] = "sent"]

\* _make_request_result with every 2xx status taken for a success.
_make_request_result_any_2xx(r) ==
    IF r.kind = "error" THEN TransportFault
    ELSE IF r.status_code \notin 200..299
    THEN Raise("PaymentXpException",
               <<"Request failed: ", r.status_code, " ", r.content>>)
    ELSE _parse_response(r.content)

\* _make_request from requests.post's result r on: the exception requests.post
\* raised propagates, a status other than 200 raises PaymentXpException with
\* "Request failed: {status_code} {content}", and a 200 is parsed.
_make_request_result(r) ==
    IF r.kind = "error" THEN TransportFault
    ELSE IF r.status_code # 200
    THEN Raise("PaymentXpException",
               <<"Request failed: ", r.status_code, " ", r.content>>)
    ELSE _parse_response(r.content)

\* Thread t is blocked in requests.post inside operation name.
Blocked(t, name) == pc[t] = "sent" /\ op[t] = name

\* The blocked call of thread t gets r from the transport and ends in out.
Finish(t, r, out) ==
    /\ response' = [response EXCEPT ![t] = r]
    /\ outcome' = [outcome EXCEPT ![t] = out]
    /\ pc' = [pc EXCEPT ![t] = "done"]
    /\ UNCHANGED <<merchant_id, merchant_key, op, args, reference_number, posts>>

\* response[key] of a parsed mapping: the value, or KeyError.
GetItem(mapping, key) ==
    IF key \in DOMAIN mapping THEN Return(mapping[key])
    ELSE Raise("KeyError", <<key>>)

---------------------------------------------------------------------------
(* __init__ *)

MerchantIds == {"M1", "M2"}
MerchantKeys == {"K1"}

Init ==
    /\ merchant_id \in MerchantIds
    /\ merchant_key \in MerchantKeys
    /\ pc = [t \in Threads |-> "idle"]
    /\ op = [t \in Threads |-> "none"]
    /\ args = [t \in Threads |-> NoArgs]
    /\ reference_number = [t \in Threads |-> <<>>]
    /\ posts = [t \in Threads |-> <<>>]
    /\ response = [t \in Threads |-> NoResponse]
    /\ outcome = [t \in Threads |-> NoOutcome]

---------------------------------------------------------------------------
(* authorize_payment *)

authorize_payment(t, card_info, amount, u) ==
    LET ref == str_uuid(u)
    IN  /\ Begin(t, "authorize_payment", [card_info |-> card_info, amount |-> amount])
        /\ reference_number' = [reference_number EXCEPT ![t] = ref]
        /\ _make_request_post(t, "webhost.aspx",
              [CardNumber |-> card_info.number,
               ExpirationDateMMYY |-> card_info.expiration,
               BillingFullName |-> card_info.name,
               BillingAddress |-> card_info.address.address,
               BillingZipCode |-> card_info.address.zipcode,
               BillingCity |-> card_info.address.city,
               BillingState |-> card_info.address.state,
               MerchantID |-> merchant_id,
               MerchantKey |-> merchant_key,
               ReferenceNumber |-> ref,
               TransactionAmount |-> amount,
               TransactionType |-> "CreditCardAuthorization"])
        /\ UNCHANGED <<merchant_id, merchant_key, response, outcome>>

\* authorize_payment_result with the lookups inside the try and every
\* exception caught: a missing field becomes a failure result.
authorize_payment_result_catch_all(ref, res) ==
    IF res.kind = "raise"
    THEN Return([is_successful |-> FALSE, transaction_id |-> <<>>,
                 reference_number |-> ref])
    ELSE IF StatusID \in DOMAIN res.value /\ TransactionID \in DOMAIN res.value
    THEN Return([is_successful |-> (res.value[StatusID] = <<ZERO>>),
                 transaction_id |-> res.value[TransactionID],
                 reference_number |-> ref])
    ELSE Return([is_successful |-> FALSE, transaction_id |-> <<>>,
                 reference_number |-> ref])

\* authorize_payment_result with the transaction id kept only on success.
authorize_payment_result_txn_on_success(ref, res) ==
    IF res.kind = "raise"
    THEN IF res.exc = "PaymentXpException"
         THEN Return([is_successful |-> FALSE, transaction_id |-> <<>>,
                      reference_number |-> ref])
         ELSE res
    ELSE LET status == GetItem(res.value, StatusID)
             txn == GetItem(res.value, TransactionID)
         IN  IF status.kind = "raise" THEN status
             ELSE IF txn.kind = "raise" THEN txn
             ELSE Return([is_successful |-> (status.value = <<ZERO>>),
                          transaction_id |-> IF status.value = <<ZERO>>
                                             THEN txn.value ELSE <<>>,
                          reference_number |-> ref])

\* The try/except around _make_request and the return statement; res is how
\* _make_request ended.
authorize_payment_result(ref, res) ==
    IF res.kind = "raise"
    THEN IF res.exc = "PaymentXpException"
         THEN Return([is_successful |-> FALSE, transaction_id |-> <<>>,
                      reference_number |-> ref])
         ELSE res
    ELSE LET status == GetItem(res.value, StatusID)
             txn == GetItem(res.value, TransactionID)
         IN  IF status.kind = "raise" THEN status
             ELSE IF txn.kind = "raise" THEN txn
             ELSE Return([is_successful |-> (status.value = <<ZERO>>),
                          transaction_id |-> txn.value,
                          reference_number |-> ref])

\* authorize_payment_return with the reference number kept in one place for
\* all calls: the call returns the one generated last (here: by the highest
\* thread inside authorize_payment).
authorize_payment_return_shared_reference(t, rs) ==
    /\ Blocked(t, "authorize_payment")
    /\ LET last == CHOOSE u \in Threads :
                       /\ op[u] = "authorize_payment"
                       /\ \A v \in Threads : op[v] = "authorize_payment" => v <= u
       IN  \E r \in rs :
               Finish(t, r, authorize_payment_result(reference_number[last],
                                                     _make_request_result(r)))

authorize_payment_return(t, rs) ==
    /\ Blocked(t, "authorize_payment")
    /\ \E r \in rs : Finish(t, r, authorize_payment_result(reference_number[t], _make_request_result(r)))

---------------------------------------------------------------------------
(* capture_payment *)

capture_payment(t, transaction_id, ref, amount) ==
    /\ Begin(t, "capture_payment",
             [transaction_id |-> transaction_id, reference_number |-> ref,
              amount |-> amount])
    /\ _make_request_post(t, "webhost.aspx",
          [MerchantID |-> merchant_id,
           MerchantKey |-> merchant_key,
           ReferenceNumber |-> ref,
           TransactionAmount |-> amount,
           TransactionID |-> transaction_id,
           TransactionType |-> "CreditCardSettle"])
    /\ UNCHANGED <<merchant_id, merchant_key, reference_number, response, outcome>>

\* CaptureResponse(is_successful=False)
CaptureFailed == Return([is_successful |-> FALSE])

capture_payment_result(res) ==
    IF res.kind = "raise"
    THEN IF res.exc = "PaymentXpException"
         THEN CaptureFailed
         ELSE res
    ELSE LET status == GetItem(res.value, StatusID)
         IN  IF status.kind = "raise" THEN status
             ELSE Return([is_successful |-> (status.value = <<ZERO>>)])

capture_payment_return(t, rs) ==
    /\ Blocked(t, "capture_payment")
    /\ \E r \in rs : Finish(t, r, capture_payment_result(_make_request_result(r)))

---------------------------------------------------------------------------
(* charge_card *)

charge_card(t, card_info, amount) ==
    /\ Begin(t, "charge_card", [card_info |-> card_info, amount |-> amount])
    /\ _make_request_post(t, "webhost.aspx",
          [CardNumber |-> card_info.number,
           ExpirationDateMMYY |-> card_info.expiration,
           BillingFullName |-> card_info.name,
           BillingAddress |-> card_info.address.address,
           BillingZipCode |-> card_info.address.zipcode,
           BillingCity |-> card_info.address.city,
           BillingState |-> card_info.address.state,
           MerchantID |-> merchant_id,
           MerchantKey |-> merchant_key,
           TransactionAmount |-> amount,
           TransactionType |-> "CreditCardCharge"])
    /\ UNCHANGED <<merchant_id, merchant_key, reference_number, response, outcome>>

charge_card_return(t, rs) ==
    /\ Blocked(t, "charge_card")
    /\ \E r \in rs : Finish(t, r, _make_request_result(r))

---------------------------------------------------------------------------
(* cancel_recurring_charge *)

cancel_recurring_charge(t, recur_id) ==
    /\ Begin(t, "cancel_recurring_charge", [recur_id |-> recur_id])
    /\ _make_request_post(t, "webHost.aspx",
          [MerchantID |-> merchant_id,
           MerchantKey |-> merchant_key,
           RecurID |-> recur_id,
           TransactionType |-> "CreditCardRecurringUpdate",
           IsEnabled |-> 0])
    /\ UNCHANGED <<merchant_id, merchant_key, reference_number, response, outcome>>

cancel_recurring_charge_return(t, rs) ==
    /\ Blocked(t, "cancel_recurring_charge")
    /\ \E r \in rs : Finish(t, r, _make_request_result(r))

---------------------------------------------------------------------------
(* create_recurring_charge *)

\* ValueError of date(): "year 10000 is out of range".
DateOutOfRange == Raise("ValueError", <<"year is out of range">>)

\* The start date and day of month the operation goes on with: lines 140-153.
\* ok = FALSE when date(new_year, new_month, 1) raises ValueError.
NormalizedStart(start_date) ==
    IF start_date.day > 28
    THEN LET new_month == IF start_date.month = 12 THEN 1 ELSE start_date.month + 1
             new_year == IF start_date.month = 12 THEN start_date.year + 1
                         ELSE start_date.year
             made == date(new_year, new_month, 1)
         IN  IF made.ok
             THEN [ok |-> TRUE, start_date |-> made.value, day_of_month |-> 1]
             ELSE [ok |-> FALSE]
    ELSE [ok |-> TRUE, start_date |-> start_date, day_of_month |-> start_date.day]

create_recurring_charge(t, card_info, amount, start_date, end_date) ==
    LET n == NormalizedStart(start_date)
    IN  /\ Begin(t, "create_recurring_charge",
                 [card_info |-> card_info, amount |-> amount,
                  start_date |-> start_date, end_date |-> end_date])
        /\ IF n.ok
           THEN /\ _make_request_post(t, "webhost.aspx",
                      [CardNumber |-> card_info.number,
                       ExpirationDateMMYY |-> card_info.expiration,
                       BillingFullName |-> card_info.name,
                       BillingAddress |-> card_info.address.address,
                       BillingZipCode |-> card_info.address.zipcode,
                       BillingCity |-> card_info.address.city,
                       BillingState |-> card_info.address.state,
                       MerchantID |-> merchant_id,
                       MerchantKey |-> merchant_key,
                       TransactionAmount |-> amount,
                       OccurenceOption |-> 2,
                       MonthlyOption |-> 1,
                       MonthOfYearOption |-> 1,
                       DayOfMonthOption |-> n.day_of_month,
                       StartDate |-> strftime(n.start_date),
                       EndDate |-> strftime(end_date),
                       TransactionType |-> "CreditCardRecurringCharge"])
                /\ UNCHANGED outcome
           ELSE \* date() raised ValueError before any request was made
                /\ pc' = [pc EXCEPT ![t] = "done"]
                /\ outcome' = [outcome EXCEPT ![t] = DateOutOfRange]
                /\ UNCHANGED posts
        /\ UNCHANGED <<merchant_id, merchant_key, reference_number, response>>

create_recurring_charge_return(t, rs) ==
    /\ Blocked(t, "create_recurring_charge")
    /\ \E r \in rs : Finish(t, r, _make_request_result(r))

---------------------------------------------------------------------------
(* get_paysafe_token *)

get_paysafe_token(t, card_info) ==
    /\ Begin(t, "get_paysafe_token", [card_info |-> card_info])
    /\ _make_request_post(t, "GetToken.aspx",
          [CardNumber |-> card_info.number,
           CVV2 |-> card_info.cvv2,
           ExpirationDateMMYY |-> card_info.expiration,
           MerchantID |-> merchant_id])
    /\ UNCHANGED <<merchant_id, merchant_key, reference_number, response, outcome>>

get_paysafe_token_result(res) ==
    IF res.kind = "raise" THEN res ELSE GetItem(res.value, Token)

get_paysafe_token_return(t, rs) ==
    /\ Blocked(t, "get_paysafe_token")
    /\ \E r \in rs : Finish(t, r, get_paysafe_token_result(_make_request_result(r)))

---------------------------------------------------------------------------
(* update_recurring_charge *)

\* d.update(more): the keys of more are set in d.
DictUpdate(d, more) == more @@ d

\* update_recurring_charge_data with an absent end_date sent as a blank.
update_recurring_charge_data_blank_end(recur_id, card_info, amount, start_date, end_date, interval) ==
    LET data0 == [MerchantID |-> merchant_id,
                  MerchantKey |-> merchant_key,
                  RecurID |-> recur_id,
                  TransactionType |-> "CreditCardRecurringUpdate"]
        data1 == IF card_info # <<>>
                 THEN DictUpdate(data0,
                        [CardNumber |-> card_info[1].number,
                         ExpirationDateMMYY |-> card_info[1].expiration,
                         BillingFullName |-> card_info[1].name,
                         BillingAddress |-> card_info[1].address.address,
                         BillingZipCode |-> card_info[1].address.zipcode,
                         BillingCity |-> card_info[1].address.city,
                         BillingState |-> card_info[1].address.state])
                 ELSE data0
        data2 == IF amount # <<>>
                 THEN SetItem(data1, "TransactionAmount", amount[1]) ELSE data1
        data3 == IF start_date # <<>>
                 THEN SetItem(data2, "StartDate", strftime(start_date[1])) ELSE data2
    IN  SetItem(data3, "EndDate",
                IF end_date # <<>> THEN strftime(end_date[1]) ELSE <<>>)

\* The data dict of update_recurring_charge (lines 200-221); an absent
\* optional argument is <<>>.
update_recurring_charge_data(recur_id, card_info, amount, start_date, end_date, interval) ==
    LET data0 == [MerchantID |-> merchant_id,
                  MerchantKey |-> merchant_key,
                  RecurID |-> recur_id,
                  TransactionType |-> "CreditCardRecurringUpdate"]
        data1 == IF card_info # <<>>
                 THEN DictUpdate(data0,
                        [CardNumber |-> card_info[1].number,
                         ExpirationDateMMYY |-> card_info[1].expiration,
                         BillingFullName |-> card_info[1].name,
                         BillingAddress |-> card_info[1].address.address,
                         BillingZipCode |-> card_info[1].address.zipcode,
                         BillingCity |-> card_info[1].address.city,
                         BillingState |-> card_info[1].address.state])
                 ELSE data0
        data2 == IF amount # <<>>
                 THEN SetItem(data1, "TransactionAmount", amount[1]) ELSE data1
        data3 == IF start_date # <<>>
                 THEN SetItem(data2, "StartDate", strftime(start_date[1])) ELSE data2
        data4 == IF end_date # <<>>
                 THEN SetItem(data3, "EndDate", strftime(end_date[1])) ELSE data3
    IN  data4

update_recurring_charge(t, recur_id, card_info, amount, start_date, end_date, interval) ==
    /\ Begin(t, "update_recurring_charge",
             [recur_id |-> recur_id, card_info |-> card_info, amount |-> amount,
              start_date |-> start_date, end_date |-> end_date,
              interval |-> interval])
    /\ _make_request_post(t, "webHost.aspx",
          update_recurring_charge_data(recur_id, card_info, amount, start_date,
                                       end_date, interval))
    /\ UNCHANGED <<merchant_id, merchant_key, reference_number, response, outcome>>

update_recurring_charge_return(t, rs) ==
    /\ Blocked(t, "update_recurring_charge")
    /\ \E r \in rs : Finish(t, r, _make_request_result(r))

---------------------------------------------------------------------------
(* The caller takes the result: nothing of the call is kept by the client, *)
(* and the thread is free to make its next call.                           *)

CallEnds(t) ==
    /\ pc[t] = "done"
    /\ pc' = [pc EXCEPT ![t] = "idle"]
    /\ op' = [op EXCEPT ![t] = "none"]
    /\ args' = [args EXCEPT ![t] = NoArgs]
    /\ reference_number' = [reference_number EXCEPT ![t] = <<>>]
    /\ posts' = [posts EXCEPT ![t] = <<>>]
    /\ response' = [response EXCEPT ![t] = NoResponse]
    /\ outcome' = [outcome EXCEPT ![t] = NoOutcome]
    /\ UNCHANGED <<merchant_id, merchant_key>>

---------------------------------------------------------------------------
(* The inputs the calls are drawn from. *)

card1 == [name |-> "Ann Lee", number |-> "4111111111111111",
          expiration |-> "0130", cvv2 |-> "123",
          address |-> [address |-> "1 Main St", city |-> "Austin",
                       state |-> "TX", zipcode |-> "78701"]]
card2 == [name |-> "Bo Diaz", number |-> "5500000000000004",
          expiration |-> "1228", cvv2 |-> "999",
          address |-> [address |-> "9 Elm Rd", city |-> "Reno",
                       state |-> "NV", zipcode |-> "89501"]]
Cards == {card1, card2}
Amounts == {10, 2550}
RecurIds == {"R1"}
\* 'T1': a transaction id
TxnIds == {<<84, 49>>}

\* Every valid date of a leap year and of the last year a date can hold.
Years == {2024, MAXYEAR}
StartDates ==
    {[year |-> y, month |-> m, day |-> d] :
        y \in Years, m \in 1..12, d \in 1..31} \cap
    {x \in [year : Years, month : 1..12, day : 1..31] :
        x.day <= DaysInMonth(x.year, x.month)}
EndDates == {[year |-> 2025, month |-> 12, day |-> 31]}

Optional(S) == {<<>>} \cup {<<x>> : x \in S}
UpdateDates == {[year |-> 2024, month |-> 12, day |-> 31],
                [year |-> 2024, month |-> 6, day |-> 15]}
OptCards == Optional(Cards)
OptAmounts == Optional(Amounts)
OptDates == Optional(UpdateDates)
OptIntervals == Optional({1})

\* Response bodies (bytes). 'T1', 'K', 'Error', 'Flag', 'A=1=2&B=3'.
BodyOkT1 == StatusID \o <<EQ, 48, AMP>> \o TransactionID \o <<EQ, 84, 49>>
BodyDeclinedT1 == StatusID \o <<EQ, 49, AMP>> \o TransactionID \o <<EQ, 84, 49>>
BodyNoTxn == StatusID \o <<EQ, 48>>
BodyNoStatus == TransactionID \o <<EQ, 84, 49>>
BodyToken == Token \o <<EQ, 75>>
BodyFlag == <<70, 108, 97, 103, AMP>> \o StatusID \o <<EQ, 48>>
BodyTriple == <<65, EQ, 49, EQ, 50, AMP, 66, EQ, 51>>
BodyTwice == StatusID \o <<EQ, 48, AMP>> \o StatusID \o <<EQ, 49, AMP>>
             \o TransactionID \o <<EQ, 84, 49>>
BodyLatin == Token \o <<EQ, 195, 169>>
BodyBadUtf8 == Token \o <<EQ, 255>>
BodyError == <<69, 114, 114, 111, 114>>

Bodies200 == {BodyOkT1, BodyDeclinedT1, BodyNoTxn, BodyNoStatus, BodyToken,
              BodyFlag, BodyTriple, BodyTwice, BodyLatin, BodyBadUtf8, <<>>}
NonOkStatuses == {201, 500}
Responses ==
    {TransportError}
    \cup {HttpResponse(200, b) : b \in Bodies200}
    \cup {HttpResponse(st, b) : st \in NonOkStatuses, b \in {<<>>, BodyError}}

\* The smaller inputs of the concurrent specification.
ConcCards == {card1}
ConcAmounts == {10}
ConcStartDates == {[year |-> 2024, month |-> 1, day |-> 31]}
ConcResponses == {TransportError, HttpResponse(500, BodyError),
                  HttpResponse(200, BodyOkT1), HttpResponse(200, BodyToken)}
ConcOptAmounts == Optional(ConcAmounts)

\* The bodies of the exhaustive parse specification: every byte string of at
\* most MaxLen bytes over '&', '=', 'A', 'B' and the two bytes of U+00E9.
ByteAlphabet == {AMP, EQ, 65, 66, 195, 169}
AllBodies == UNION {[1..k -> ByteAlphabet] : k \in 0..MaxLen}
ParseResponses == {HttpResponse(200, b) : b \in AllBodies}

---------------------------------------------------------------------------
(* The specifications. *)

\* One thread calls the client, one call after the other.
Next ==
    \/ \E c \in Cards, a \in Amounts, u \in Uuids :
          authorize_payment(MainThread, c, a, u)
    \/ \E x \in TxnIds, u \in Uuids, a \in Amounts :
          capture_payment(MainThread, x, str_uuid(u), a)
    \/ \E c \in Cards, a \in Amounts : charge_card(MainThread, c, a)
    \/ \E i \in RecurIds : cancel_recurring_charge(MainThread, i)
    \/ \E c \in ConcCards, a \in ConcAmounts, s \in StartDates, e \in EndDates :
          create_recurring_charge(MainThread, c, a, s, e)
    \/ \E c \in Cards : get_paysafe_token(MainThread, c)
    \/ \E i \in RecurIds, c \in OptCards, a \in OptAmounts,
          s \in OptDates, e \in OptDates, n \in OptIntervals :
          update_recurring_charge(MainThread, i, c, a, s, e, n)
    \/ authorize_payment_return(MainThread, Responses)
    \/ capture_payment_return(MainThread, Responses)
    \/ charge_card_return(MainThread, Responses)
    \/ cancel_recurring_charge_return(MainThread, Responses)
    \/ create_recurring_charge_return(MainThread, Responses)
    \/ get_paysafe_token_return(MainThread, Responses)
    \/ update_recurring_charge_return(MainThread, Responses)
    \/ CallEnds(MainThread)

Spec == Init /\ [][Next]_vars

\* NumThreads threads call the one client with no synchronisation.
NextConc ==
    \E t \in Threads :
        \/ \E c \in ConcCards, a \in ConcAmounts, u \in Uuids :
              authorize_payment(t, c, a, u)
        \/ \E x \in TxnIds, u \in Uuids, a \in ConcAmounts :
              capture_payment(t, x, str_uuid(u), a)
        \/ \E c \in ConcCards, a \in ConcAmounts : charge_card(t, c, a)
        \/ \E i \in RecurIds : cancel_recurring_charge(t, i)
        \/ \E c \in ConcCards, a \in ConcAmounts, s \in ConcStartDates,
              e \in EndDates : create_recurring_charge(t, c, a, s, e)
        \/ \E c \in ConcCards : get_paysafe_token(t, c)
        \/ \E i \in RecurIds, a \in ConcOptAmounts :
              update_recurring_charge(t, i, <<>>, a, <<>>, <<>>, <<>>)
        \/ authorize_payment_return(t, ConcResponses)
        \/ capture_payment_return(t, ConcResponses)
        \/ charge_card_return(t, ConcResponses)
        \/ cancel_recurring_charge_return(t, ConcResponses)
        \/ create_recurring_charge_return(t, ConcResponses)
        \/ get_paysafe_token_return(t, ConcResponses)
        \/ update_recurring_charge_return(t, ConcResponses)
        \/ CallEnds(t)

SpecConc == Init /\ [][NextConc]_vars

\* One call that returns the parsed mapping, over every body of AllBodies.
NextParse ==
    \/ \E c \in ConcCards, a \in ConcAmounts : charge_card(MainThread, c, a)
    \/ charge_card_return(MainThread, ParseResponses)
    \/ CallEnds(MainThread)

SpecParse == Init /\ [][NextParse]_vars

---------------------------------------------------------------------------
(* What the claims speak of. *)

\* Thread t is inside a call or has finished one.
Called(t) == pc[t] = "sent" \/ pc[t] = "done"
Done(t) == pc[t] = "done"
\* The call of thread t got an HTTP response (not a transport failure).
GotResponse(t) == Done(t) /\ response[t].kind = "response"
\* The call of thread t got a status-200 response whose body parsed to a mapping.
GotMapping(t) ==
    /\ GotResponse(t)
    /\ response[t].status_code = 200
    /\ _parse_response(response[t].content).kind = "return"
ParsedMapping(t) == _parse_response(response[t].content).value

HardFailureOps == {"charge_card", "create_recurring_charge", "get_paysafe_token",
                   "cancel_recurring_charge", "update_recurring_charge"}
SoftFailureOps == {"authorize_payment", "capture_payment"}

---------------------------------------------------------------------------
\* C1: when requests.post ends in a transport failure (no response obtained),
\* authorize_payment returns AuthorizationResponse(is_successful=False,
\* transaction_id='', reference_number=<the non-empty generated one>) and
\* capture_payment returns CaptureResponse(is_successful=False); neither raises.
C1_TransportFailureIsSoft ==
    \A t \in Threads :
        (Done(t) /\ response[t] = TransportError) =>
            /\ op[t] = "authorize_payment" =>
                  /\ outcome[t].kind = "return"
                  /\ outcome[t].value.is_successful = FALSE
                  /\ outcome[t].value.transaction_id = <<>>
                  /\ outcome[t].value.reference_number # <<>>
            /\ op[t] = "capture_payment" =>
                  /\ outcome[t].kind = "return"
                  /\ outcome[t].value.is_successful = FALSE

---------------------------------------------------------------------------
\* C2: for every response whose status is not 200, the five hard-failure
\* operations end in a PaymentXpException that carries the status code and
\* the raw body (and so return no mapping), and authorize_payment and
\* capture_payment return a result with is_successful = False.
C2_Non200 ==
    \A t \in Threads :
        (GotResponse(t) /\ response[t].status_code # 200) =>
            /\ op[t] \in HardFailureOps =>
                  /\ outcome[t].kind = "raise"
                  /\ outcome[t].exc = "PaymentXpException"
                  /\ outcome[t].message[2] = response[t].status_code
                  /\ outcome[t].message[4] = response[t].content
            /\ op[t] \in SoftFailureOps =>
                  /\ outcome[t].kind = "return"
                  /\ outcome[t].value.is_successful = FALSE

\* A 201 with a body reached get_paysafe_token and a 500 reached
\* authorize_payment's caller as a failure result.
C2_Witness ==
    \E t \in Threads :
        /\ GotResponse(t)
        /\ \/ /\ op[t] = "get_paysafe_token"
              /\ response[t].status_code = 201
              /\ response[t].content = BodyError
              /\ outcome[t].kind = "raise"
           \/ /\ op[t] = "authorize_payment"
              /\ response[t].status_code = 500
              /\ response[t].content = BodyError
              /\ outcome[t].kind = "return"

---------------------------------------------------------------------------
\* The date the claim expects to be sent for start date d.
ExpectedStart(d) ==
    IF d.day > 28
    THEN [year |-> IF d.month = 12 THEN d.year + 1 ELSE d.year,
          month |-> IF d.month = 12 THEN 1 ELSE d.month + 1,
          day |-> 1]
    ELSE d

\* What C3 says of the request of thread t's create_recurring_charge call.
StartDateAsClaimed(t) ==
    /\ Len(posts[t]) = 1
    /\ posts[t][1].data.StartDate = strftime(ExpectedStart(args[t].start_date))
    /\ posts[t][1].data.DayOfMonthOption = ExpectedStart(args[t].start_date).day
    /\ posts[t][1].data.EndDate = strftime(args[t].end_date)

\* C3: for every valid start_date, create_recurring_charge sends day 1 of the
\* following month (January of year + 1 after December) with DayOfMonthOption
\* 1 when the day is over 28, and the original date and day otherwise; the
\* EndDate sent is the end_date given.
C3_StartDateNormalized ==
    \A t \in Threads :
        (Called(t) /\ op[t] = "create_recurring_charge") => StartDateAsClaimed(t)

\* The same for every start date but December 29, 30 and 31 of MAXYEAR.
C3_BelowLastMonth ==
    \A t \in Threads :
        (/\ Called(t)
         /\ op[t] = "create_recurring_charge"
         /\ ~(/\ args[t].start_date.year = MAXYEAR
              /\ args[t].start_date.month = 12
              /\ args[t].start_date.day > 28)) => StartDateAsClaimed(t)

---------------------------------------------------------------------------
(* C4: the mapping the claim describes, read off the decoded text by       *)
(* position instead of by splitting.                                       *)

\* The positions where a piece of text x starts: 1 and after every '&'.
PieceStarts(x) == {i \in 1..(Len(x) + 1) : i = 1 \/ x[i - 1] = AMP}
\* The last position of the piece that starts at i (i - 1: an empty piece).
PieceEnd(x, i) ==
    CHOOSE e \in (i - 1)..Len(x) :
        /\ \A k \in i..e : x[k] # AMP
        /\ e = Len(x) \/ x[e + 1] = AMP
\* The positions of '=' in the piece that starts at i.
PieceEqs(x, i) == {k \in i..PieceEnd(x, i) : x[k] = EQ}
\* The pieces that contribute: those with at most one '='.
Contributing(x) == {i \in PieceStarts(x) : Cardinality(PieceEqs(x, i)) <= 1}
PieceKey(x, i) ==
    IF PieceEqs(x, i) = {} THEN SubSeq(x, i, PieceEnd(x, i))
    ELSE SubSeq(x, i, (CHOOSE k \in PieceEqs(x, i) : TRUE) - 1)
PieceValue(x, i) ==
    IF PieceEqs(x, i) = {} THEN <<>>
    ELSE SubSeq(x, (CHOOSE k \in PieceEqs(x, i) : TRUE) + 1, PieceEnd(x, i))
\* The last contributing piece with key k.
LastWithKey(x, k) ==
    CHOOSE i \in Contributing(x) :
        /\ PieceKey(x, i) = k
        /\ \A j \in Contributing(x) : PieceKey(x, j) = k => j <= i
ClaimedMapping(x) ==
    [k \in {PieceKey(x, i) : i \in Contributing(x)} |->
        PieceValue(x, LastWithKey(x, k))]

RawMappingOps == {"charge_card", "create_recurring_charge",
                  "cancel_recurring_charge", "update_recurring_charge"}

\* C4: for every response body, the mapping _parse_response returns is the one
\* obtained from the pieces between the '&' of the decoded body, left to right:
\* one '=' sets key -> value, no '=' sets piece -> '', two or more '='
\* contribute nothing, a later piece overwrites an earlier one with its key,
\* and no other key appears.
C4_ParsedMapping ==
    \A t \in Threads :
        (/\ GotResponse(t)
         /\ response[t].status_code = 200
         /\ op[t] \in RawMappingOps
         /\ decode_utf8(response[t].content).ok) =>
            outcome[t] = Return(ClaimedMapping(decode_utf8(response[t].content).text))

\* "A==&B" was parsed to exactly {B: ""}: the piece with two '=' was dropped.
C4_Witness ==
    \E t \in Threads :
        /\ GotResponse(t)
        /\ op[t] = "charge_card"
        /\ response[t].status_code = 200
        /\ response[t].content = <<65, EQ, EQ, AMP, 66>>
        /\ outcome[t].kind = "return"
        /\ DOMAIN outcome[t].value = {<<66>>}
        /\ outcome[t].value[<<66>>] = <<>>

\* The spec's examples, as the code parses them.
ParseExamples ==
    /\ _parse_response(BodyTriple) = Return(<<66>> :> <<51>>)
    /\ _parse_response(BodyFlag) =
          Return((<<70, 108, 97, 103>> :> <<>>) @@ (StatusID :> <<48>>))
    /\ _parse_response(BodyOkT1) =
          Return((StatusID :> <<48>>) @@ (TransactionID :> <<84, 49>>))
    /\ _parse_response(<<>>) = Return(<<>> :> <<>>)
    /\ _parse_response(BodyLatin) = Return(Token :> <<233>>)
    /\ _parse_response(BodyBadUtf8).kind = "raise"
    /\ strftime([year |-> 2024, month |-> 3, day |-> 1])
          = <<48, 51, 48, 49, 50, 48, 50, 52>>
    /\ Len(str_uuid(1)) = 36

---------------------------------------------------------------------------
BaseUpdateKeys == {"MerchantID", "MerchantKey", "RecurID", "TransactionType"}
CardKeys == {"CardNumber", "ExpirationDateMMYY", "BillingFullName",
             "BillingAddress", "BillingZipCode", "BillingCity", "BillingState"}

\* C5: the request of update_recurring_charge has exactly the keys MerchantID,
\* MerchantKey, RecurID, TransactionType, plus the seven card fields iff
\* card_info is given, TransactionAmount iff amount is given, StartDate iff
\* start_date is given, EndDate iff end_date is given; every value is the
\* argument's (a start date is sent as given, also past the 28th), so the
\* interval argument changes nothing.
C5_UpdateRequestKeys ==
    \A t \in Threads :
        (Called(t) /\ op[t] = "update_recurring_charge") =>
            LET a == args[t]
                d == posts[t][1].data
            IN  /\ Len(posts[t]) = 1
                /\ DOMAIN d =
                      BaseUpdateKeys
                      \cup (IF a.card_info # <<>> THEN CardKeys ELSE {})
                      \cup (IF a.amount # <<>> THEN {"TransactionAmount"} ELSE {})
                      \cup (IF a.start_date # <<>> THEN {"StartDate"} ELSE {})
                      \cup (IF a.end_date # <<>> THEN {"EndDate"} ELSE {})
                /\ d.MerchantID = merchant_id
                /\ d.MerchantKey = merchant_key
                /\ d.RecurID = a.recur_id
                /\ d.TransactionType = "CreditCardRecurringUpdate"
                /\ a.card_info # <<>> =>
                      /\ d.CardNumber = a.card_info[1].number
                      /\ d.ExpirationDateMMYY = a.card_info[1].expiration
                      /\ d.BillingFullName = a.card_info[1].name
                      /\ d.BillingAddress = a.card_info[1].address.address
                      /\ d.BillingZipCode = a.card_info[1].address.zipcode
                      /\ d.BillingCity = a.card_info[1].address.city
                      /\ d.BillingState = a.card_info[1].address.state
                /\ a.amount # <<>> => d.TransactionAmount = a.amount[1]
                /\ a.start_date # <<>> =>
                      d.StartDate = Pad2(a.start_date[1].month)
                                    \o Pad2(a.start_date[1].day)
                                    \o Decimal(a.start_date[1].year)
                /\ a.end_date # <<>> =>
                      d.EndDate = Pad2(a.end_date[1].month)
                                  \o Pad2(a.end_date[1].day)
                                  \o Decimal(a.end_date[1].year)

OnlyAmountKeys == {"MerchantID", "MerchantKey", "RecurID", "TransactionType",
                   "TransactionAmount"}

\* A call with only amount and interval given sent exactly the five keys.
C5_Witness ==
    \E t \in Threads :
        /\ Called(t)
        /\ op[t] = "update_recurring_charge"
        /\ args[t].card_info = <<>>
        /\ args[t].amount # <<>>
        /\ args[t].start_date = <<>>
        /\ args[t].end_date = <<>>
        /\ args[t].interval # <<>>
        /\ DOMAIN posts[t][1].data = OnlyAmountKeys

---------------------------------------------------------------------------
\* The fields the operation reads from the parsed mapping.
TokenFields == {Token}
AuthorizeFields == {StatusID, TransactionID}
CaptureFields == {StatusID}
ExpectedFields(name) ==
    IF name = "get_paysafe_token" THEN TokenFields
    ELSE IF name = "authorize_payment" THEN AuthorizeFields
    ELSE IF name = "capture_payment" THEN CaptureFields
    ELSE {}

\* C6: when a status-200 response parses to a mapping that lacks a field the
\* operation reads (Token; StatusID or TransactionID; StatusID), the call
\* ends in a KeyError, which is not a PaymentXpException, and
\* authorize_payment and capture_payment let it reach the caller.
C6_MissingFieldIsLookupFault ==
    \A t \in Threads :
        (/\ GotMapping(t)
         /\ \E k \in ExpectedFields(op[t]) : k \notin DOMAIN ParsedMapping(t)) =>
            /\ outcome[t].kind = "raise"
            /\ outcome[t].exc = "KeyError"
            /\ outcome[t].exc # "PaymentXpException"
            /\ outcome[t].message[1] \in ExpectedFields(op[t])
            /\ outcome[t].message[1] \notin DOMAIN ParsedMapping(t)

\* authorize_payment got StatusID=0 without a TransactionID and raised KeyError.
C6_Witness ==
    \E t \in Threads :
        /\ GotMapping(t)
        /\ op[t] = "authorize_payment"
        /\ response[t].content = BodyNoTxn
        /\ outcome[t].kind = "raise"
        /\ outcome[t].exc = "KeyError"
        /\ outcome[t].message = <<TransactionID>>

---------------------------------------------------------------------------
\* C7: every authorize_payment call has sent one request whose ReferenceNumber
\* is the reference number generated by the call; a returned
\* AuthorizationResponse carries that same reference number, on success and
\* on soft failure; and on a status-200 response with StatusID and
\* TransactionID, is_successful is true iff StatusID is "0" and transaction_id
\* is the response's TransactionID.
C7_ReferenceAndResult ==
    \A t \in Threads :
        (Called(t) /\ op[t] = "authorize_payment") =>
            /\ Len(posts[t]) = 1
            /\ reference_number[t] # <<>>
            /\ posts[t][1].data.ReferenceNumber = reference_number[t]
            /\ (Done(t) /\ outcome[t].kind = "return") =>
                  outcome[t].value.reference_number
                      = posts[t][1].data.ReferenceNumber
            /\ (/\ GotMapping(t)
                /\ \A k \in AuthorizeFields : k \in DOMAIN ParsedMapping(t)) =>
                  /\ outcome[t].kind = "return"
                  /\ outcome[t].value.is_successful
                        <=> (ParsedMapping(t)[StatusID] = <<48>>)
                  /\ outcome[t].value.transaction_id
                        = ParsedMapping(t)[TransactionID]

\* A declined authorization (StatusID=1) came back with its transaction id.
C7_Witness ==
    \E t \in Threads :
        /\ Done(t)
        /\ op[t] = "authorize_payment"
        /\ GotMapping(t)
        /\ response[t].content = BodyDeclinedT1
        /\ outcome[t].kind = "return"
        /\ outcome[t].value.is_successful = FALSE
        /\ outcome[t].value.transaction_id = <<84, 49>>
        /\ outcome[t].value.reference_number = posts[t][1].data.ReferenceNumber

---------------------------------------------------------------------------
\* The path each operation posts to.
LowerCasePathOps == {"authorize_payment", "capture_payment", "charge_card",
                     "create_recurring_charge"}
UpperCasePathOps == {"cancel_recurring_charge", "update_recurring_charge"}
PathOf(name) ==
    IF name \in LowerCasePathOps THEN "webhost.aspx"
    ELSE IF name \in UpperCasePathOps THEN "webHost.aspx"
    ELSE "GetToken.aspx"

\* C8: every invocation of a public operation issues exactly one HTTP POST,
\* whatever its outcome, and the POST goes to the operation's path.
C8_ExactlyOnePost ==
    \A t \in Threads :
        Called(t) =>
            /\ Len(posts[t]) = 1
            /\ posts[t][1].url = BASE_URL \o "/" \o PathOf(op[t])

\* The same for every invocation that did not end in date()'s ValueError.
C8_OnePostUnlessValueError ==
    \A t \in Threads :
        (Called(t) /\ ~(Done(t) /\ outcome[t].kind = "raise"
                        /\ outcome[t].exc = "ValueError")) =>
            /\ Len(posts[t]) = 1
            /\ posts[t][1].url = BASE_URL \o "/" \o PathOf(op[t])

---------------------------------------------------------------------------
\* C9: every request of create_recurring_charge carries OccurenceOption 2
\* (monthly), MonthlyOption 1 (explicit day of month), the MonthOfYearOption
\* that means all months (0, by the comment on line 171) and TransactionType
\* CreditCardRecurringCharge, whatever the arguments.
C9_FixedRecurrence ==
    \A t \in Threads :
        (Called(t) /\ op[t] = "create_recurring_charge" /\ posts[t] # <<>>) =>
            /\ posts[t][1].data.OccurenceOption = 2
            /\ posts[t][1].data.MonthlyOption = 1
            /\ posts[t][1].data.MonthOfYearOption = 0
            /\ posts[t][1].data.TransactionType = "CreditCardRecurringCharge"

---------------------------------------------------------------------------
\* No step writes the credentials.
CredentialsKept == merchant_id' = merchant_id /\ merchant_key' = merchant_key

\* A step leaves the call of every thread that does not take it as it was.
OthersUntouched ==
    \A t \in Threads :
        pc'[t] = pc[t] =>
            /\ op'[t] = op[t]
            /\ args'[t] = args[t]
            /\ reference_number'[t] = reference_number[t]
            /\ posts'[t] = posts[t]
            /\ response'[t] = response[t]
            /\ outcome'[t] = outcome[t]

\* Two calls with the same operation, arguments and reference number sent the
\* same request; with the same response too, they ended the same way; and an
\* authorize_payment call sent and returned its own reference number.
CallsIndependent ==
    /\ \A t, u \in Threads :
          (/\ Called(t) /\ Called(u)
           /\ op[t] = op[u]
           /\ args[t] = args[u]
           /\ reference_number[t] = reference_number[u]) =>
              /\ posts[t] = posts[u]
              /\ (Done(t) /\ Done(u) /\ response[t] = response[u]) =>
                    outcome[t] = outcome[u]
    /\ \A t \in Threads :
          (Called(t) /\ op[t] = "authorize_payment") =>
              /\ posts[t][1].data.ReferenceNumber = reference_number[t]
              /\ (Done(t) /\ outcome[t].kind = "return") =>
                    outcome[t].value.reference_number = reference_number[t]
    /\ \A t \in Threads :
          (Called(t) /\ posts[t] # <<>> /\ op[t] # "get_paysafe_token") =>
              /\ posts[t][1].data.MerchantID = merchant_id
              /\ posts[t][1].data.MerchantKey = merchant_key

\* C10: under any interleaving of calls on one client, no step writes
\* merchant_id or merchant_key, no step changes another thread's call, and
\* each call's request and result follow from its own arguments, reference
\* number and response alone.
C10_NoSharedState ==
    [][CredentialsKept /\ OthersUntouched /\ CallsIndependent']_vars

\* Two overlapping authorize_payment calls with different reference numbers
\* both returned, each with its own.
C10_Witness ==
    \E t, u \in Threads :
        /\ t # u
        /\ Done(t) /\ Done(u)
        /\ op[t] = "authorize_payment" /\ op[u] = "authorize_payment"
        /\ reference_number[t] # reference_number[u]
        /\ outcome[t].kind = "return" /\ outcome[u].kind = "return"
        /\ outcome[t].value.reference_number = reference_number[t]
        /\ outcome[u].value.reference_number = reference_number[u]

====
